---- MODULE Spec2Model ----
(***************************************************************************)
(* A model of blackd-client (src/src/main.rs): the translation of the      *)
(* command line into request headers, the per-file exchange with the       *)
(* blackd daemon, the replacement of the file on disk and the batch loop   *)
(* of main.                                                                *)
(*                                                                         *)
(* Strings are sequences of one-character strings, byte vectors are        *)
(* sequences of numbers 0..255.                                            *)
(***************************************************************************)
EXTENDS Integers, Sequences, FiniteSets, TLC

(***************************************************************************)
(* Bounds of the model.                                                    *)
(***************************************************************************)
\* longest list of source paths given on the command line
MaxPaths == 2
\* longest list of comma-separated tokens given to --target-version
MaxTokens == 2

(***************************************************************************)
(* Strings.                                                                *)
(***************************************************************************)
PY27 == <<"2", "7">>
PY33 == <<"3", "3">>
PY34 == <<"3", "4">>
PY35 == <<"3", "5">>
PY36 == <<"3", "6">>
PY37 == <<"3", "7">>
PY38 == <<"3", "8">>
PY39 == <<"3", "9">>
PYI == <<"P", "Y", "I">>

COMMA == ","

DigitChars == <<"0", "1", "2", "3", "4", "5", "6", "7", "8", "9">>

\* char::is_numeric: the decimal digits and the other numeric characters of
\* Unicode, of which the superscript two stands in the alphabet of the model
is_numeric(c) == c \in {DigitChars[k] : k \in 1..10} \cup {"²"}

RECURSIVE join(_, _)
\* [String]::join(sep)
join(ss, sep) ==
    IF ss = <<>> THEN <<>>
    ELSE IF Len(ss) = 1 THEN ss[1]
    ELSE ss[1] \o <<sep>> \o join(Tail(ss), sep)

RECURSIVE split(_, _)
\* str::split(sep): the pieces between the separators, empty pieces included;
\* the empty string gives one empty piece
split(s, sep) ==
    IF \A k \in 1..Len(s) : s[k] # sep THEN <<s>>
    ELSE LET k == CHOOSE j \in 1..Len(s) :
                      s[j] = sep /\ \A m \in 1..(j - 1) : s[m] # sep
         IN  <<SubSeq(s, 1, k - 1)>> \o split(SubSeq(s, k + 1, Len(s)), sep)

RECURSIVE SelectChars(_)
\* item.chars().filter(|x| x.is_numeric()).collect()
SelectChars(s) ==
    IF s = <<>> THEN <<>>
    ELSE IF is_numeric(Head(s)) THEN <<Head(s)>> \o SelectChars(Tail(s))
    ELSE SelectChars(Tail(s))

RECURSIVE to_string(_)
\* u8::to_string: the decimal digits, no sign, no leading zero
to_string(n) ==
    IF n < 10 THEN <<DigitChars[n + 1]>>
    ELSE to_string(n \div 10) \o <<DigitChars[(n % 10) + 1]>>

(***************************************************************************)
(* parse_py_versions                                                       *)
(***************************************************************************)
supported_versions == <<PY27, PY33, PY34, PY35, PY36, PY37, PY38, PY39, PYI>>

\* Vec::contains
contains(v, x) == \E k \in 1..Len(v) : v[k] = x

NonEmptyEntry(entry) == Len(entry) > 0

NumericOnly(item) == SelectChars(item)

IsSupported(entry) == contains(supported_versions, entry)

WithPy(val) == <<"p", "y">> \o val

\* the Ok value of parse_py_versions(version_string)
parse_py_versions(version_string) ==
    LET entries  == SelectSeq(split(version_string, COMMA), NonEmptyEntry)
        numeric  == [k \in 1..Len(entries) |-> NumericOnly(entries[k])]
        kept     == SelectSeq(numeric, IsSupported)
        versions == [k \in 1..Len(kept) |-> WithPy(kept[k])]
    IN  join(versions, COMMA)

(***************************************************************************)
(* headers_from_cli_options                                                *)
(***************************************************************************)
TRUE_STR == <<"t", "r", "u", "e">>
FAST_STR == <<"f", "a", "s", "t">>
SAFE_STR == <<"s", "a", "f", "e">>

\* HeaderMap::new
EmptyHeaders == [n \in {} |-> <<>>]

\* HeaderMap::insert
insert(h, name, value) ==
    [n \in (DOMAIN h) \cup {name} |-> IF n = name THEN value ELSE h[n]]

\* --safe is not looked at
FastOrSafe_ignores_safe(options) ==
    IF options.fast THEN FAST_STR ELSE SAFE_STR

FastOrSafe(options) ==
    IF options.fast /\ ~options.safe THEN FAST_STR ELSE SAFE_STR

headers_from_cli_options(options) ==
    LET h1 == insert(EmptyHeaders, "X-Protocol-Version", <<"1">>)
        h2 == insert(h1, "X-Line-Length", to_string(options.line_length))
        h3 == IF options.skip_string_normalization
              THEN insert(h2, "X-Skip-String-Normalization", TRUE_STR) ELSE h2
        h4 == IF options.skip_magic_trailing_comma
              THEN insert(h3, "X-Skip-Magic-Trailing-Comma", TRUE_STR) ELSE h3
        h5 == insert(h4, "X-Fast-Or-Safe", FastOrSafe(options))
        h6 == IF options.target_version # <<>>
              THEN insert(h5, "X-Python-Variant", options.target_version) ELSE h5
        h7 == IF options.diff THEN insert(h6, "X-Diff", TRUE_STR) ELSE h6
    IN  h7

(***************************************************************************)
(* The command line, the disk, the daemon.                                 *)
(***************************************************************************)
LOCALHOST == <<"l", "o", "c", "a", "l", "h", "o", "s", "t">>
DefaultPort == 45484
DefaultLineLength == 88

\* the bodies the daemon answers with: shorter than, as long as and longer
\* than the file they replace; ASCII, a two-byte UTF-8 sequence, and the first
\* byte of one alone, which is no UTF-8
ResponseBodies == {<<>>, <<97, 98>>, <<195, 169>>, <<195>>}

\* the sequences over S of length at most n
SeqUpTo(S, n) == UNION {[1..k -> S] : k \in 0..n}

\* the spellings of source paths on the command line, relative to the working
\* directory, and the file each one names
Spellings == {"a.py", "./a.py", "b.py"}
Files == {"/w/a.py", "/w/b.py"}
Resolve(p) ==
    CASE p \in Files -> p
      [] p \in {"a.py", "./a.py"} -> "/w/a.py"
      [] OTHER -> "/w/b.py"

NoFile == [exists |-> FALSE, data |-> <<>>]
File(data) == [exists |-> TRUE, data |-> data]

\* the tokens a user writes in --target-version
TokenSamples ==
    {<<>>, PY36, PY39, PYI, <<"p", "y", "3", "6">>, <<"3", ".", "6">>,
     <<"9", "9">>, <<"a", "b", "c">>, <<"3", "²", "6">>}

LineLengthSamples == {1, 9, 10, DefaultLineLength, 100, 255}

\* the statuses the daemon answers with: the four the client knows and one other
OK == 200
NO_CONTENT == 204
BAD_REQUEST == 400
INTERNAL_SERVER_ERROR == 500
Statuses == {OK, NO_CONTENT, BAD_REQUEST, INTERNAL_SERVER_ERROR, 201}

TransportFailures == {"connection refused", "timed out", "connection broken"}

(***************************************************************************)
(* Errors and results                                                      *)
(***************************************************************************)
\* what_happened of a BlackError: which text it is, with the path, the status
\* or the bytes the text is built from
Msg(kind, path, status, text) ==
    [kind |-> kind, path |-> path, status |-> status, text |-> text]

\* Result<bool, BlackError>
Ok(val) == [ok |-> TRUE, val |-> val, err |-> Msg("", "", 0, <<>>)]
Err(msg) == [ok |-> FALSE, val |-> FALSE, err |-> msg]

\* BlackError::from_debug, behind the three From implementations
from_debug(source, detail) == Msg(source, detail, 0, <<>>)

IsCont(b) == b >= 128 /\ b <= 191

RECURSIVE valid_utf8(_)
\* the check of String::from_utf8: well-formed UTF-8, no overlong forms, no
\* surrogates, nothing above U+10FFFF
valid_utf8(b) ==
    IF b = <<>> THEN TRUE
    ELSE LET n == Len(b)
             c == b[1]
             rest(k) == SubSeq(b, k + 1, n)
         IN  IF c < 128 THEN valid_utf8(rest(1))
             ELSE IF c >= 194 /\ c <= 223
                  THEN n >= 2 /\ IsCont(b[2]) /\ valid_utf8(rest(2))
             ELSE IF c >= 224 /\ c <= 239
                  THEN /\ n >= 3
                       /\ IsCont(b[2]) /\ IsCont(b[3])
                       /\ (c = 224 => b[2] >= 160)
                       /\ (c = 237 => b[2] <= 159)
                       /\ valid_utf8(rest(3))
             ELSE IF c >= 240 /\ c <= 244
                  THEN /\ n >= 4
                       /\ IsCont(b[2]) /\ IsCont(b[3]) /\ IsCont(b[4])
                       /\ (c = 240 => b[2] >= 144)
                       /\ (c = 244 => b[2] <= 143)
                       /\ valid_utf8(rest(4))
             ELSE FALSE

\* String::from_utf8(bytes)?: the string has the bytes of the vector
from_utf8(bytes) ==
    IF valid_utf8(bytes) THEN Msg("body", "", 0, bytes)
    ELSE Msg("FromUtf8Error", "", 0, bytes)

VARIABLES
    argv,        \* the command line as typed
    options,     \* CliOptions, once parsed
    headers,     \* the HeaderMap built once by main
    pc,          \* where the program is
    idx,         \* the position of the loop of main in options.src
    formatted,   \* counter of main
    skipped,     \* counter of main
    exit_status, \* "running", "success" (main returned Ok) or "panic"
    env,         \* the device of the temporary directory, the target directory's write permission
    fs,          \* the files of the working directory
    tmp,         \* the NamedTempFile of write_pyfile
    filepath,    \* the local of format_pyfile
    file_bytes,  \* what read_pyfile returned, the request body
    resp,        \* the response received by send()
    data,        \* the argument of write_pyfile
    sent,        \* every request sent, in order
    outcomes,    \* for each entry processed so far, which outcome it had
    last,        \* the last call of format_pyfile that returned: path, response, result
    before,      \* the files as they were when the running (or last) format_pyfile was called
    removed,     \* the files others have removed since then
    steps,       \* what the running (or last) format_pyfile has done to files and network, in order
    existed,     \* how many entries named an existing file when their turn came
    synced,      \* how many bytes of the temporary file have reached stable storage
    written      \* for each file, the bytes the outcomes so far say it holds

vars == <<argv, options, headers, pc, idx, formatted, skipped, exit_status, env,
          fs, tmp, filepath, file_bytes, resp, data, sent, outcomes, last, before,
          removed, steps, existed, synced, written>>

ioVars == <<env, fs, tmp, filepath, file_bytes, resp, data, sent, before, removed, steps,
           existed, synced, written>>
loopVars == <<idx, formatted, skipped, outcomes, last>>

NoResp == [status |-> 0, body |-> <<>>]
NoOptions ==
    [host |-> <<>>, port |-> 0, line_length |-> 0, target_version |-> <<>>,
     skip_string_normalization |-> FALSE, skip_magic_trailing_comma |-> FALSE,
     fast |-> FALSE, safe |-> FALSE, diff |-> FALSE, src |-> <<>>]

NoCall == [path |-> "", resp |-> NoResp, result |-> Ok(FALSE)]

\* the state before main runs, for a given command line and environment
InitWith(a, e, disk) ==
    /\ argv = a
    /\ options = NoOptions
    /\ headers = EmptyHeaders
    /\ pc = "main"
    /\ idx = 1
    /\ formatted = 0
    /\ skipped = 0
    /\ exit_status = "running"
    /\ env = e
    /\ fs = disk
    /\ tmp = NoFile
    /\ filepath = ""
    /\ file_bytes = <<>>
    /\ resp = NoResp
    /\ data = <<>>
    /\ sent = <<>>
    /\ outcomes = <<>>
    /\ last = NoCall
    /\ before = disk
    /\ removed = {}
    /\ steps = <<>>
    /\ existed = 0
    /\ synced = 0
    /\ written = [f \in Files |-> disk[f].data]

Argv(tokens, ll, ssn, smtc, fast, safe, diff, src) ==
    [tokens |-> tokens, line_length |-> ll, skip_string_normalization |-> ssn,
     skip_magic_trailing_comma |-> smtc, fast |-> fast, safe |-> safe,
     diff |-> diff, src |-> src]

Envs == [temp_device : {"disk", "tmpfs"}, dir_writable : BOOLEAN]

Disks ==
    {[f \in Files |-> IF f = "/w/a.py" THEN File(<<120>>) ELSE b] :
        b \in {NoFile, File(<<121, 121>>)}}

\* a run over every list of source paths, with and without --diff
Init ==
    \E src \in SeqUpTo(Spellings, MaxPaths), diff \in BOOLEAN, e \in Envs, disk \in Disks :
        InitWith(Argv(<<>>, DefaultLineLength, FALSE, FALSE, FALSE, FALSE, diff, src),
                 e, disk)

\* every configuration, one source path
InitArgs ==
    \E tokens \in SeqUpTo(TokenSamples, MaxTokens), ll \in LineLengthSamples,
       ssn \in BOOLEAN, smtc \in BOOLEAN, fast \in BOOLEAN, safe \in BOOLEAN,
       diff \in BOOLEAN :
        InitWith(Argv(tokens, ll, ssn, smtc, fast, safe, diff, <<"a.py">>),
                 [temp_device |-> "disk", dir_writable |-> TRUE],
                 [f \in Files |-> File(<<120>>)])

(***************************************************************************)
(* main, up to the loop                                                    *)
(***************************************************************************)
\* argh::from_env: --target-version goes through parse_py_versions, the rest
\* is taken as typed
from_env(a) ==
    [host |-> LOCALHOST, port |-> DefaultPort, line_length |-> a.line_length,
     target_version |-> parse_py_versions(join(a.tokens, COMMA)),
     skip_string_normalization |-> a.skip_string_normalization,
     skip_magic_trailing_comma |-> a.skip_magic_trailing_comma,
     fast |-> a.fast, safe |-> a.safe, diff |-> a.diff, src |-> a.src]

\* lines 24-29: parse the arguments, return at once when there is no source
main_args ==
    /\ pc = "main"
    /\ options' = from_env(argv)
    /\ IF options'.src = <<>>
       THEN pc' = "exit" /\ exit_status' = "success"
       ELSE pc' = "headers" /\ UNCHANGED exit_status
    /\ UNCHANGED <<argv, headers, ioVars, loopVars>>

\* lines 35-47
main_headers ==
    /\ pc = "headers"
    /\ headers' = headers_from_cli_options(options)
    /\ pc' = "loop"
    /\ UNCHANGED <<argv, options, exit_status, ioVars, loopVars>>

(***************************************************************************)
(* format_pyfile, read_pyfile, write_pyfile                                *)
(***************************************************************************)
\* PathBuf::canonicalize, or the path as typed when that fails
canonicalize(p) == IF fs[Resolve(p)].exists THEN Resolve(p) ELSE p

\* the existence check left out
exists_unchecked(p) == TRUE

\* Path::exists
exists(p) == fs[Resolve(p)].exists

\* the FormatOutcome a result of format_pyfile stands for
Outcome(result) ==
    IF ~result.ok THEN "Failed" ELSE IF result.val THEN "Rewritten" ELSE "Unchanged"

\* the locals of format_pyfile
locals == <<filepath, file_bytes, resp, data>>

cfgVars == <<argv, options, headers>>

\* the Err arm of main counts nothing
Return_err_uncounted(result, r) ==
    /\ outcomes' = Append(outcomes, Outcome(result))
    /\ last' = [path |-> options.src[idx], resp |-> r, result |-> result]
    /\ IF result.ok /\ result.val
       THEN formatted' = formatted + 1 /\ UNCHANGED skipped
       ELSE IF result.ok
            THEN skipped' = skipped + 1 /\ UNCHANGED formatted
            ELSE UNCHANGED <<formatted, skipped>>
    /\ idx' = idx + 1
    /\ pc' = "loop"
    /\ filepath' = ""
    /\ file_bytes' = <<>>
    /\ resp' = NoResp
    /\ data' = <<>>

\* format_pyfile returns result having received the response r: its locals are
\* gone, and lines 62-73 of main count the result and move on
Return(result, r) ==
    /\ outcomes' = Append(outcomes, Outcome(result))
    /\ last' = [path |-> options.src[idx], resp |-> r, result |-> result]
    /\ IF result.ok /\ result.val
       THEN formatted' = formatted + 1 /\ UNCHANGED skipped
       ELSE skipped' = skipped + 1 /\ UNCHANGED formatted
    /\ idx' = idx + 1
    /\ pc' = "loop"
    /\ filepath' = ""
    /\ file_bytes' = <<>>
    /\ resp' = NoResp
    /\ data' = <<>>

\* format_pyfile returning with the response as it stands
Tally(result) == Return(result, resp)

\* lines 49-51 and 288-294: the next entry of src, its canonical path and the
\* existence check
format_pyfile_begin ==
    /\ pc = "loop"
    /\ idx <= Len(options.src)
    /\ before' = fs
    /\ removed' = {}
    /\ steps' = <<>>
    /\ LET path == canonicalize(options.src[idx])
       IN  IF ~exists(path)
           THEN Tally(Ok(FALSE)) /\ UNCHANGED existed
           ELSE /\ filepath' = path
                /\ pc' = "read"
                /\ existed' = existed + 1
                /\ UNCHANGED <<file_bytes, resp, data, loopVars>>
    /\ UNCHANGED <<cfgVars, exit_status, env, synced, written, fs, tmp, sent>>

\* someone else removes the file between the existence check and the read
unlink ==
    /\ pc = "read"
    /\ fs[Resolve(filepath)].exists
    /\ fs' = [fs EXCEPT ![Resolve(filepath)] = NoFile]
    /\ removed' = removed \cup {Resolve(filepath)}
    /\ written' = [written EXCEPT ![Resolve(filepath)] = <<>>]
    /\ UNCHANGED <<cfgVars, pc, exit_status, env, synced, tmp, locals, sent, before, steps,
                   existed, loopVars>>

\* a failed read taken for an empty file
read_pyfile_or_empty(path, io_ok) ==
    [ok |-> TRUE,
     bytes |-> IF fs[Resolve(path)].exists /\ io_ok THEN fs[Resolve(path)].data ELSE <<>>,
     err |-> Msg("", "", 0, <<>>)]

\* read_pyfile (lines 253-265): Ok with the whole file, or the error of open
\* or of read_to_end
read_pyfile(path, io_ok) ==
    IF fs[Resolve(path)].exists /\ io_ok
    THEN [ok |-> TRUE, bytes |-> fs[Resolve(path)].data, err |-> Msg("", "", 0, <<>>)]
    ELSE [ok |-> FALSE, bytes |-> <<>>, err |-> from_debug("io::Error", "read")]

\* line 296
format_pyfile_read ==
    /\ pc = "read"
    /\ \E io_ok \in BOOLEAN :
          LET r == read_pyfile(filepath, io_ok)
          IN  IF r.ok
              THEN /\ file_bytes' = r.bytes
                   /\ pc' = "send"
                   /\ UNCHANGED <<filepath, resp, data, loopVars>>
              ELSE Tally(Err(r.err))
    /\ steps' = Append(steps, "read")
    /\ UNCHANGED <<cfgVars, exit_status, env, synced, written, fs, tmp, sent, before, removed, existed>>

\* lines 37-43: the builder main makes once
req_builder ==
    [method |-> "POST", host |-> options.host, port |-> options.port,
     headers |-> headers]

\* the headers left off the second builder
fallback_builder_no_headers ==
    [method |-> "POST", host |-> options.host, port |-> options.port,
     headers |-> EmptyHeaders]

\* lines 53-59: the builder made for the call when try_clone gives None
fallback_builder ==
    [method |-> "POST", host |-> options.host, port |-> options.port,
     headers |-> headers]

\* lines 52-60: req_builder.try_clone().unwrap_or(..)
client(cloned) == IF cloned THEN req_builder ELSE fallback_builder

\* line 296-298: the request a builder sends with the body
Request(builder, body) ==
    [method |-> builder.method, host |-> builder.host, port |-> builder.port,
     headers |-> builder.headers, body |-> body, entry |-> idx]

\* line 298, the request reaches the daemon and the head of a response comes
\* back: send() returns once the status line and the headers are in, the body
\* is still to be received
format_pyfile_send ==
    /\ pc = "send"
    /\ \E cloned \in BOOLEAN : sent' = Append(sent, Request(client(cloned), file_bytes))
    /\ \E status \in Statuses : resp' = [status |-> status, body |-> <<>>]
    /\ pc' = "status"
    /\ steps' = Append(steps, "send")
    /\ UNCHANGED <<cfgVars, exit_status, env, synced, written, fs, tmp, filepath, file_bytes, data,
                   before, removed, existed, loopVars>>

\* a failed send() is tried again, twice at most
format_pyfile_send_retries ==
    /\ pc = "send"
    /\ Len(steps) < 6
    /\ \E cloned \in BOOLEAN : sent' = Append(sent, Request(client(cloned), file_bytes))
    /\ steps' = steps \o <<"send", "send failed">>
    /\ UNCHANGED <<cfgVars, pc, exit_status, env, synced, written, fs, tmp, locals, before, removed,
                   existed, loopVars>>

\* line 298, send() fails: refused, timed out or broken before a response
format_pyfile_send_fails ==
    /\ pc = "send"
    /\ \E cloned \in BOOLEAN : sent' = Append(sent, Request(client(cloned), file_bytes))
    /\ \E cause \in TransportFailures :
          Tally(Err(from_debug("reqwest::Error", cause)))
    /\ steps' = steps \o <<"send", "send failed">>
    /\ UNCHANGED <<cfgVars, exit_status, env, synced, written, fs, tmp, before, removed, existed>>

\* every success status but No Content taken for OK
status_arm_is_success(status) ==
    CASE status = NO_CONTENT -> "NO_CONTENT"
      [] status >= 200 /\ status <= 299 -> "OK"
      [] status = BAD_REQUEST -> "BAD_REQUEST"
      [] status = INTERNAL_SERVER_ERROR -> "INTERNAL_SERVER_ERROR"
      [] OTHER -> "_"

\* which arm of the match of line 300 a status takes
status_arm(status) ==
    CASE status = OK -> "OK"
      [] status = NO_CONTENT -> "NO_CONTENT"
      [] status = BAD_REQUEST -> "BAD_REQUEST"
      [] status = INTERNAL_SERVER_ERROR -> "INTERNAL_SERVER_ERROR"
      [] OTHER -> "_"

\* the arms whose first step is resp.bytes().unwrap()
reads_body(arm) == arm \in {"OK", "BAD_REQUEST"}

\* the arm that calls write_pyfile
calls_write_pyfile(arm) == arm = "OK"

\* the arm of Internal Server Error left out
arm_result_no_500(arm, status, body, path) ==
    CASE arm = "NO_CONTENT" -> Ok(FALSE)
      [] arm = "BAD_REQUEST" -> Err(from_utf8(body))
      [] OTHER -> Err(Msg("unrecognized status code", "", status, <<>>))

\* lines 315-330: what the arms other than OK return, the body being read
arm_result(arm, status, body, path) ==
    CASE arm = "NO_CONTENT" -> Ok(FALSE)
      [] arm = "BAD_REQUEST" -> Err(from_utf8(body))
      [] arm = "INTERNAL_SERVER_ERROR" -> Err(Msg("internal error in blackd", path, 0, <<>>))
      [] OTHER -> Err(Msg("unrecognized status code", "", status, <<>>))

\* lines 300-331, the body arriving whole in the arms that call bytes(); the
\* other arms never receive it
format_pyfile_status ==
    /\ pc = "status"
    /\ LET arm == status_arm(resp.status)
       IN  \E body \in (IF reads_body(arm) THEN ResponseBodies ELSE {<<>>}) :
             IF calls_write_pyfile(arm)
             THEN /\ data' = body
                  /\ resp' = [resp EXCEPT !.body = body]
                  /\ pc' = "tmp_create"
                  /\ UNCHANGED <<filepath, file_bytes, loopVars>>
             ELSE Return(arm_result(arm, resp.status, body, filepath),
                         [resp EXCEPT !.body = body])
    /\ steps' = IF reads_body(status_arm(resp.status)) THEN Append(steps, "body") ELSE steps
    /\ UNCHANGED <<cfgVars, exit_status, env, synced, written, fs, tmp, sent, before, removed, existed>>

\* lines 302 and 320: the connection breaks while the body is received,
\* bytes() is an Err and unwrap() panics
format_pyfile_body_fails ==
    /\ pc = "status"
    /\ reads_body(status_arm(resp.status))
    /\ pc' = "panicked"
    /\ exit_status' = "panic"
    /\ steps' = Append(steps, "body failed")
    /\ UNCHANGED <<cfgVars, env, synced, written, fs, tmp, locals, sent, before, removed, existed, loopVars>>

\* line 269, NamedTempFile::new(): a new empty file in the temporary directory
write_pyfile_create ==
    /\ pc = "tmp_create"
    /\ \E created \in BOOLEAN :
          IF created
          THEN /\ tmp' = File(<<>>)
               /\ pc' = "tmp_write"
               /\ UNCHANGED <<locals, loopVars>>
          ELSE /\ Tally(Err(from_debug("io::Error", "tempfile")))
               /\ UNCHANGED tmp
    /\ steps' = Append(steps, IF tmp'.exists THEN "create" ELSE "create failed")
    /\ synced' = 0
    /\ UNCHANGED <<cfgVars, exit_status, env, written, fs, sent, before, removed, existed>>

\* the bytes written to the target itself, opened for writing and truncated
write_pyfile_write_in_place ==
    /\ pc = "tmp_write"
    /\ Len(tmp.data) < Len(data)
    /\ tmp' = File(Append(tmp.data, data[Len(tmp.data) + 1]))
    /\ fs' = [fs EXCEPT ![Resolve(filepath)] = tmp']
    /\ steps' = Append(steps, "write")
    /\ UNCHANGED <<cfgVars, pc, exit_status, env, synced, written, locals, sent, before,
                   removed, existed, loopVars>>

\* line 272, one write of write_all: the next byte reaches the temporary file
write_pyfile_write ==
    /\ pc = "tmp_write"
    /\ Len(tmp.data) < Len(data)
    /\ tmp' = File(Append(tmp.data, data[Len(tmp.data) + 1]))
    /\ steps' = Append(steps, "write")
    /\ UNCHANGED <<cfgVars, pc, exit_status, env, synced, written, fs, locals, sent, before,
                   removed, existed, loopVars>>

\* the kernel writes a byte of the temporary file back to the disk, when it
\* chooses to: write_pyfile never calls sync_all (lines 269-279)
writeback ==
    /\ pc = "tmp_write"
    /\ synced < Len(tmp.data)
    /\ synced' = synced + 1
    /\ UNCHANGED <<cfgVars, pc, exit_status, env, fs, tmp, locals, sent, before, removed,
                   steps, existed, written, loopVars>>

\* line 272, a write of write_all fails
write_pyfile_write_fails ==
    /\ pc = "tmp_write"
    /\ Len(tmp.data) < Len(data)
    /\ pc' = "write_failed"
    /\ steps' = Append(steps, "write failed")
    /\ UNCHANGED <<cfgVars, exit_status, env, synced, written, fs, tmp, locals, sent, before, removed, existed,
                   loopVars>>

\* whether rename(2) of the temporary file onto a file of the working
\* directory succeeds
rename_ok(e) == e.temp_device = "disk" /\ e.dir_writable

\* the file the path names after a successful persist
persisted(t) == File(t.data)

\* the temporary file renamed onto another path than the one that was read
write_pyfile_persist_elsewhere ==
    /\ pc = "tmp_write"
    /\ Len(tmp.data) = Len(data)
    /\ IF rename_ok(env)
       THEN /\ UNCHANGED fs
            /\ tmp' = NoFile
            /\ synced' = 0
            /\ written' = [written EXCEPT ![Resolve(options.src[idx])] = resp.body]
            /\ Tally(Ok(TRUE))
       ELSE /\ pc' = "persist_failed"
            /\ UNCHANGED <<fs, tmp, locals, loopVars, synced, written>>
    /\ steps' = Append(steps, IF rename_ok(env) THEN "rename" ELSE "rename failed")
    /\ UNCHANGED <<cfgVars, exit_status, env, sent, before, removed, existed>>

\* line 279, temp.persist(filepath), write_all having returned Ok; on success
\* format_pyfile returns Ok(true) (lines 303-306)
write_pyfile_persist ==
    /\ pc = "tmp_write"
    /\ Len(tmp.data) = Len(data)
    /\ IF rename_ok(env)
       THEN /\ fs' = [fs EXCEPT ![Resolve(filepath)] = persisted(tmp)]
            /\ tmp' = NoFile
            /\ synced' = 0
            /\ written' = [written EXCEPT ![Resolve(options.src[idx])] = resp.body]
            /\ Tally(Ok(TRUE))
       ELSE /\ pc' = "persist_failed"
            /\ UNCHANGED <<fs, tmp, locals, loopVars, synced, written>>
    /\ steps' = Append(steps, IF rename_ok(env) THEN "rename" ELSE "rename failed")
    /\ UNCHANGED <<cfgVars, exit_status, env, sent, before, removed, existed>>

\* the temporary file kept on disk
dropped_kept(t) == t

\* what is left of the temporary file when its owner is dropped
dropped(t) == NoFile

\* lines 273-275 and 281-283: write_pyfile returns the error, the
\* NamedTempFile (inside the PersistError after a failed persist) is dropped
\* and format_pyfile hands the error on (line 312)
write_pyfile_fails ==
    /\ pc \in {"write_failed", "persist_failed"}
    /\ tmp' = dropped(tmp)
    /\ IF pc = "write_failed"
       THEN Tally(Err(Msg("Could not persist reformatted code to disk!", "", 0, <<>>)))
       ELSE Tally(Err(Msg("PersistError", filepath, 0, <<>>)))
    /\ steps' = Append(steps, "drop")
    /\ synced' = 0
    /\ UNCHANGED <<cfgVars, exit_status, env, written, fs, sent, before, removed, existed>>

\* lines 76-94: the loop is over, the summary is printed, main returns Ok(())
main_exit ==
    /\ pc = "loop"
    /\ idx > Len(options.src)
    /\ pc' = "exit"
    /\ exit_status' = "success"
    /\ UNCHANGED <<argv, options, headers, ioVars, loopVars>>

Next ==
    \/ main_args
    \/ main_headers
    \/ format_pyfile_begin
    \/ unlink
    \/ format_pyfile_read
    \/ format_pyfile_send
    \/ format_pyfile_send_fails
    \/ format_pyfile_status
    \/ format_pyfile_body_fails
    \/ write_pyfile_create
    \/ write_pyfile_write
    \/ writeback
    \/ write_pyfile_write_fails
    \/ write_pyfile_persist
    \/ write_pyfile_fails
    \/ main_exit

Spec == Init /\ [][Next]_vars

\* the translation of the command line alone, over every configuration
NextArgs == main_args \/ main_headers

SpecArgs == InitArgs /\ [][NextArgs]_vars

(***************************************************************************)
(* Properties                                                              *)
(***************************************************************************)
\* a call of format_pyfile has returned and no other has begun
Returned == pc \in {"loop", "exit"} /\ outcomes # <<>>

\* write_pyfile is running
InWrite == pc \in {"tmp_create", "tmp_write", "write_failed", "persist_failed"}

\* the file the running call works on, and the one the last call worked on
Target == Resolve(filepath)
LastTarget == Resolve(last.path)

\* the running (or last) call has changed no file
Untouched == \A f \in Files : fs[f] = IF f \in removed THEN NoFile ELSE before[f]

Did(step) == \E k \in 1..Len(steps) : steps[k] = step

WriteSteps ==
    {"create", "create failed", "write", "write failed", "rename", "rename failed", "drop"}

\* C1: while write_pyfile runs on an existing target, whatever it has done so
\* far, the target exists and holds either the bytes it held before or the
\* whole of the new bytes; once write_pyfile has returned the same is true,
\* and after Ok(true) it holds the new bytes
C1_AtomicReplace ==
    /\ InWrite =>
          /\ before[Target].exists
          /\ fs[Target].exists
          /\ fs[Target] \in {before[Target], File(data)}
    /\ (Returned /\ last.resp.status = OK) =>
          /\ fs[LastTarget].exists
          /\ fs[LastTarget] \in {before[LastTarget], File(last.resp.body)}
    /\ (Returned /\ last.result = Ok(TRUE)) =>
          fs[LastTarget] = File(last.resp.body)

\* a replacement by more bytes than the file had has succeeded
C1_Witness ==
    /\ Returned
    /\ last.result = Ok(TRUE)
    /\ Did("rename")
    /\ Len(fs[LastTarget].data) > Len(before[LastTarget].data)

\* C2: when a call of format_pyfile ends with anything but a response of
\* status OK (another status, a failed send, a failed read, a missing file),
\* every file is as it was, no temporary file exists and none was made; and
\* nothing is written before the status is known
C2_WriteOnlyOnOK ==
    /\ (Returned /\ last.resp.status # OK) =>
          /\ Untouched
          /\ ~tmp.exists
          /\ \A k \in 1..Len(steps) : steps[k] \notin WriteSteps
    /\ pc \in {"read", "send", "status"} =>
          /\ Untouched
          /\ ~tmp.exists
          /\ \A k \in 1..Len(steps) : steps[k] \notin WriteSteps

\* a Bad Request with a body has been answered to a file that exists
C2_Witness ==
    /\ Returned
    /\ last.resp.status = BAD_REQUEST
    /\ last.resp.body # <<>>
    /\ before[LastTarget].exists

\* C3: the run never stops in the middle of the list: when the process has
\* ended, every entry of the list has had its outcome
C3_BatchIsolation ==
    exit_status # "running" => Len(outcomes) = Len(options.src)

\* C4: in a run with --diff no source file is changed, whatever the daemon answers
C4_DiffLeavesSources ==
    argv.diff => Untouched

\* C5: when write_pyfile has returned an error (the temporary file not
\* created, a write to it failed, the rename failed), every file is as it
\* was and the temporary file is gone
C5_FailedWriteHarmless ==
    (Returned /\ last.resp.status = OK /\ ~last.result.ok) =>
        /\ Untouched
        /\ ~tmp.exists

\* the rename has failed and write_pyfile has returned
C5_Witness ==
    /\ Returned
    /\ last.resp.status = OK
    /\ ~last.result.ok
    /\ Did("rename failed")
    /\ Did("drop")
    /\ last.resp.body # before[LastTarget].data

\* what write_pyfile and the OK arm make of a response, by what happened
\* to the temporary file
OKArmAsSpecified ==
    CASE Did("rename") -> last.result = Ok(TRUE) /\ fs[LastTarget] = File(last.resp.body)
      [] Did("create failed") -> last.result = Err(Msg("io::Error", "tempfile", 0, <<>>))
      [] Did("write failed") ->
            last.result = Err(Msg("Could not persist reformatted code to disk!", "", 0, <<>>))
      [] Did("rename failed") ->
            last.result = Err(Msg("PersistError", LastTarget, 0, <<>>))
      [] OTHER -> FALSE

\* the arms that read no body
OtherArmsAsSpecified ==
    CASE last.resp.status = NO_CONTENT -> last.result = Ok(FALSE)
      [] last.resp.status = INTERNAL_SERVER_ERROR ->
            last.result = Err(Msg("internal error in blackd", LastTarget, 0, <<>>))
      [] OTHER ->
            last.result = Err(Msg("unrecognized status code", "", last.resp.status, <<>>))

\* C6 as claimed: every response received has the outcome of the table, a
\* Bad Request being Failed with the body as its text, whatever the body
C6_InterpretationExact ==
    (Returned /\ last.resp.status \in Statuses) =>
        CASE last.resp.status = OK -> OKArmAsSpecified
          [] last.resp.status = BAD_REQUEST ->
                last.result = Err(Msg("body", "", 0, last.resp.body))
          [] OTHER -> OtherArmsAsSpecified

\* C6: every response received has the outcome of the table, a Bad Request
\* being Failed with the body as its text when the body is UTF-8, and Failed
\* with the decoding error when it is not
C6_InterpretationAmended ==
    (Returned /\ last.resp.status \in Statuses) =>
        CASE last.resp.status = OK -> OKArmAsSpecified
          [] last.resp.status = BAD_REQUEST ->
                IF valid_utf8(last.resp.body)
                THEN last.result = Err(Msg("body", "", 0, last.resp.body))
                ELSE /\ ~last.result.ok
                     /\ last.result.err.kind = "FromUtf8Error"
          [] OTHER -> OtherArmsAsSpecified

\* a Bad Request whose body is no UTF-8 has been answered
C6_Witness ==
    /\ Returned
    /\ last.resp.status = BAD_REQUEST
    /\ last.resp.body = <<195>>
    /\ ~last.result.ok
    /\ last.result.err.kind = "FromUtf8Error"

\* C7: for a path that names no file when its turn comes, format_pyfile
\* returns Ok(false) having read nothing, sent nothing and made no file; and
\* no more requests are sent than entries named a file at their turn
C7_MissingSkip ==
    /\ (Returned /\ ~before[LastTarget].exists) =>
          /\ last.result = Ok(FALSE)
          /\ steps = <<>>
          /\ Untouched
          /\ ~tmp.exists
          /\ \A k \in 1..Len(sent) : sent[k].entry # Len(outcomes)
    /\ Len(sent) <= existed
    /\ existed <= Len(outcomes) + (IF pc \in {"loop", "exit", "main", "headers"} THEN 0 ELSE 1)

\* a missing file has been skipped after a request for another file
C7_Witness ==
    /\ Returned
    /\ ~before[LastTarget].exists
    /\ Len(outcomes) = 2
    /\ Len(sent) = 1

\* C8: whenever the connection fails, while the request is sent or while the
\* body of the response is received, format_pyfile returns an Err, having
\* sent the request once and changed no file
C8_NetworkFailureIsErr ==
    (Did("send failed") \/ Did("body failed")) =>
        /\ Returned
        /\ ~last.result.ok
        /\ Untouched
        /\ Cardinality({k \in 1..Len(steps) : steps[k] = "send"}) = 1

\* the enumerated version tags
TagSet == {PY27, PY33, PY34, PY35, PY36, PY37, PY38, PY39, PYI}

RECURSIVE MemberTags(_)
\* the tokens that are tags, in their order, each after "py"
MemberTags(tokens) ==
    IF tokens = <<>> THEN <<>>
    ELSE (IF Head(tokens) \in TagSet THEN << <<"p", "y">> \o Head(tokens) >> ELSE <<>>)
         \o MemberTags(Tail(tokens))

RECURSIVE CommaJoined(_)
CommaJoined(ss) ==
    IF ss = <<>> THEN <<>>
    ELSE IF Tail(ss) = <<>> THEN Head(ss)
    ELSE Head(ss) \o <<",">> \o CommaJoined(Tail(ss))

\* C9: X-Python-Variant is the comma-joined list of the tokens of
\* --target-version that are version tags, in their order, each after "py";
\* it is absent when no token is a tag
C9_VersionFiltering ==
    pc = "loop" =>
        IF MemberTags(argv.tokens) = <<>>
        THEN "X-Python-Variant" \notin DOMAIN headers
        ELSE /\ "X-Python-Variant" \in DOMAIN headers
             /\ headers["X-Python-Variant"] = CommaJoined(MemberTags(argv.tokens))

DigitValue(c) == CHOOSE d \in 0..9 : DigitChars[d + 1] = c

RECURSIVE DecimalValue(_)
\* the number a string of decimal digits writes
DecimalValue(str) ==
    IF str = <<>> THEN 0
    ELSE 10 * DecimalValue(SubSeq(str, 1, Len(str) - 1)) + DigitValue(str[Len(str)])

IsDecimalOf(str, n) ==
    /\ str # <<>>
    /\ \A k \in 1..Len(str) : \E d \in 1..10 : DigitChars[d] = str[k]
    /\ (Len(str) > 1 => str[1] # "0")
    /\ DecimalValue(str) = n

\* C10: the headers built from a configuration are X-Protocol-Version "1",
\* X-Line-Length with the line length in decimal, X-Fast-Or-Safe "fast" when
\* --fast is given without --safe and "safe" otherwise, each of
\* X-Skip-String-Normalization, X-Skip-Magic-Trailing-Comma and X-Diff with
\* "true" exactly when its switch is given, X-Python-Variant exactly when the
\* filtered version list is not empty, and nothing else
C10_HeaderPresence ==
    pc = "loop" =>
        /\ DOMAIN headers =
              {"X-Protocol-Version", "X-Line-Length", "X-Fast-Or-Safe"}
              \cup (IF argv.skip_string_normalization
                    THEN {"X-Skip-String-Normalization"} ELSE {})
              \cup (IF argv.skip_magic_trailing_comma
                    THEN {"X-Skip-Magic-Trailing-Comma"} ELSE {})
              \cup (IF argv.diff THEN {"X-Diff"} ELSE {})
              \cup (IF options.target_version # <<>> THEN {"X-Python-Variant"} ELSE {})
        /\ headers["X-Protocol-Version"] = <<"1">>
        /\ argv.line_length \in 1..255
        /\ IsDecimalOf(headers["X-Line-Length"], argv.line_length)
        /\ headers["X-Fast-Or-Safe"] =
              (IF argv.fast /\ ~argv.safe THEN <<"f", "a", "s", "t">>
               ELSE <<"s", "a", "f", "e">>)
        /\ \A n \in {"X-Skip-String-Normalization", "X-Skip-Magic-Trailing-Comma", "X-Diff"} :
              n \in DOMAIN headers => headers[n] = <<"t", "r", "u", "e">>
        /\ "X-Python-Variant" \in DOMAIN headers =>
              headers["X-Python-Variant"] = options.target_version

\* the headers of --fast --safe --diff -l 255 with a version that is kept
C10_Witness ==
    /\ pc = "loop"
    /\ argv.fast /\ argv.safe /\ argv.diff
    /\ argv.line_length = 255
    /\ ~argv.skip_string_normalization
    /\ "X-Python-Variant" \in DOMAIN headers


\* how many of the entries processed so far had the outcome
Count(outcome) == Cardinality({k \in 1..Len(outcomes) : outcomes[k] = outcome})

\* C11: at every point of the loop, k entries having been processed,
\* formatted + skipped = k, formatted is the number of entries Rewritten and
\* skipped the number of all others; when the loop is over the two add up
\* to the length of the list
C11_TallyInvariant ==
    /\ Len(outcomes) = idx - 1
    /\ formatted + skipped = Len(outcomes)
    /\ formatted = Count("Rewritten")
    /\ skipped = Count("Unchanged") + Count("Failed")
    /\ pc = "exit" => formatted + skipped = Len(options.src)

\* the loop is over, one entry failed and the next was rewritten
C11_Witness ==
    /\ pc = "exit"
    /\ outcomes = <<"Failed", "Rewritten">>
    /\ formatted = 1
    /\ skipped = 1

\* C12: whatever the list of paths and the outcomes, the process does not end
\* otherwise than by main returning Ok(()), exit status 0; and with no path
\* given it ends without a request
C12_ExitsSuccessfully ==
    /\ exit_status \in {"running", "success"}
    /\ (pc = "exit" /\ options.src = <<>>) => sent = <<>>


\* C13: the temporary file is made beside the target, on its filesystem, so
\* that the rename never crosses devices: once the bytes are in the temporary
\* file, the write succeeds whenever the target's directory is writable
C13_TempBesideTarget ==
    /\ tmp.exists => env.temp_device = "disk"
    /\ (Returned /\ last.resp.status = OK /\ env.dir_writable
          /\ ~Did("create failed") /\ ~Did("write failed")) =>
          last.result = Ok(TRUE)


\* C14: within one entry the steps come in the order read, one request, the
\* body of the response, the write; the request is sent only when the whole
\* file has been read; no entry has two requests; and a request belongs to an
\* entry already done or to the running one, so that no two are in flight
C14_StepOrder ==
    /\ steps # <<>> => steps[1] = "read"
    /\ \A k \in 1..Len(steps) :
          /\ steps[k] = "read" => k = 1
          /\ steps[k] = "send" => k = 2
          /\ steps[k] \in {"send failed", "body", "body failed"} => k = 3
          /\ steps[k] \in WriteSteps => k >= 4 /\ steps[3] = "body"
          /\ steps[k] \in {"rename", "rename failed"} =>
                \A j \in (k + 1)..Len(steps) : steps[j] = "drop"
    /\ pc \in {"send", "status"} =>
          /\ fs[Target].exists
          /\ file_bytes = fs[Target].data
    /\ \A j, k \in 1..Len(sent) : j < k => sent[j].entry < sent[k].entry
    /\ \A k \in 1..Len(sent) : sent[k].entry <= idx /\ sent[k].entry <= Len(options.src)
    /\ Cardinality({k \in 1..Len(sent) : sent[k].entry > Len(outcomes)}) <= 1
    /\ (pc \in {"loop", "exit"}) => \A k \in 1..Len(sent) : sent[k].entry <= Len(outcomes)

\* a second entry has gone through all steps after a first that sent a request
C14_Witness ==
    /\ Returned
    /\ Len(sent) = 2
    /\ steps = <<"read", "send", "body", "create", "write", "write", "rename">>


\* C15: the rename onto the target happens only when all of the new bytes
\* have been written to the temporary file and have reached stable storage
C15_RenameAfterSync ==
    [][(~Did("rename") /\ Did("rename")') =>
          /\ tmp.data = data
          /\ synced = Len(data)]_vars


\* the entry the running (or last) call of format_pyfile is for
CurEntry == IF pc \in {"loop", "exit"} THEN Len(outcomes) ELSE idx

\* the running (or last) call has sent a request
HasRequest == sent # <<>> /\ sent[Len(sent)].entry = CurEntry

CurFile == Resolve(options.src[CurEntry])

\* C16: when the file is there at the existence check and cannot be read
\* afterwards (removed in between, or the read fails), format_pyfile returns
\* the error of the read, not Ok(false); no request is sent for the entry, no
\* file is changed; and a request that is sent carries the whole file
C16_ReadFailureIsError ==
    /\ (Returned /\ before[LastTarget].exists
          /\ (LastTarget \in removed \/ steps = <<"read">>)) =>
          /\ last.result = Err(Msg("io::Error", "read", 0, <<>>))
          /\ ~HasRequest
          /\ Untouched
          /\ ~tmp.exists
    /\ HasRequest =>
          /\ before[CurFile].exists
          /\ CurFile \notin removed
          /\ sent[Len(sent)].body = before[CurFile].data

\* the file of the second entry was removed after the existence check, the
\* first entry having sent its request
C16_Witness ==
    /\ Returned
    /\ LastTarget \in removed
    /\ Len(outcomes) = 2
    /\ Len(sent) = 1
    /\ ~last.result.ok

\* C17: every request of a run is a POST to the one endpoint and carries the
\* headers of the run, the same for every file and for either builder; when a
\* request has just gone out these are the headers headers_from_cli_options
\* makes of the options; and the body is the whole of the file
C17_RequestContent ==
    /\ \A k \in 1..Len(sent) :
          /\ sent[k].method = "POST"
          /\ sent[k].host = LOCALHOST
          /\ sent[k].port = DefaultPort
          /\ sent[k].headers = headers
    /\ (steps # <<>> /\ steps[Len(steps)] \in {"send", "send failed"}) =>
          headers = headers_from_cli_options(options)
    /\ HasRequest => sent[Len(sent)].body = before[CurFile].data

\* two requests of a run with --diff, with different bodies
C17_Witness ==
    /\ Len(sent) = 2
    /\ argv.diff
    /\ sent[1].body # sent[2].body

\* C18: the request for an entry carries what the earlier entries left in
\* its file (the body of the latest Rewritten, or the original bytes), under
\* whichever spelling the file is named; and the file that is written is the
\* file that was read
C18_RepeatedPathsSeeRewrites ==
    /\ HasRequest => sent[Len(sent)].body =
          (IF pc \in {"loop", "exit"} /\ last.result = Ok(TRUE)
           THEN before[CurFile].data ELSE written[CurFile])
    /\ \A f \in Files : fs[f].exists => fs[f].data = written[f]
    /\ (Returned /\ last.result = Ok(TRUE)) =>
          /\ fs[LastTarget] = File(last.resp.body)
          /\ \A f \in Files \ {LastTarget} : fs[f] = before[f]
    /\ (pc \in {"send", "status"}) => file_bytes = written[Resolve(options.src[idx])]

\* a file named twice under two spellings, rewritten the first time, and the
\* second request carrying the new bytes
C18_Witness ==
    /\ Len(sent) = 2
    /\ Len(options.src) = 2
    /\ options.src[1] # options.src[2]
    /\ Resolve(options.src[1]) = Resolve(options.src[2])
    /\ outcomes # <<>>
    /\ outcomes[1] = "Rewritten"
    /\ sent[2].body # sent[1].body
    /\ sent[2].body = <<195, 169>>

====
